---- MODULE Spec2Model ----
(***************************************************************************)
(* Model of lights-for-omen-sequencer (src/main.rs): the command line is   *)
(* resolved into a key -> color override table (try_parse_cmd), the table  *)
(* is encoded into ten HID reports (build_table), and each report is sent  *)
(* to the keyboard through a freshly resolved OUT interrupt endpoint       *)
(* (find_writable_endpoint, write_endpoint, configure_endpoint).           *)
(*                                                                         *)
(* Rust &str values that the code indexes or parses character by character *)
(* (the hex templates and the color tokens) are sequences of one-character *)
(* strings; strings that are only compared (key and group names) are TLA+  *)
(* strings.                                                                *)
(***************************************************************************)
EXTENDS Integers, Sequences, FiniteSets, TLC

\* ------------------------------------------------------------------------
\* Static protocol templates (main.rs:158-170)
\* ------------------------------------------------------------------------

HEADER0 ==
    <<"0", "4", "0", "0", "0", "2", "0", "0", "f", "c", "e", "a", "0", "0", "0", "0", "0", "0", "0", "0",
      "0", "0", "0", "0", "0", "0", "0", "0", "0", "0", "0", "0", "0", "0", "0", "0", "0", "0", "0", "0",
      "0", "0", "0", "0", "0", "0", "0", "0", "0", "0", "0", "0", "0", "0", "0", "0", "0", "0", "0", "0",
      "0", "0", "0", "0", "0", "0", "0", "0", "0", "0", "0", "0", "0", "0", "0", "0", "0", "0", "0", "0",
      "0", "0", "0", "0", "0", "0", "0", "0", "0", "0", "0", "0", "0", "0", "0", "0", "0", "0", "0", "0",
      "0", "0", "0", "0", "0", "0", "0", "0", "0", "0", "0", "0", "0", "0", "0", "0", "0", "0", "0", "0",
      "0", "0", "0", "0", "0", "0", "0", "0">>

HEADER1 ==
    <<"0", "5", "0", "0", "3", "c", "0", "0">>

HEADER2 ==
    <<"0", "5", "0", "1", "3", "c", "0", "0">>

HEADER3 ==
    <<"0", "5", "0", "2", "1", "8", "0", "0">>

HEADER4 ==
    <<"0", "6", "0", "0", "3", "c", "0", "0">>

HEADER5 ==
    <<"0", "6", "0", "1", "3", "c", "0", "0">>

HEADER6 ==
    <<"0", "6", "0", "2", "1", "8", "0", "0">>

HEADER7 ==
    <<"0", "7", "0", "0", "3", "c", "0", "0">>

HEADER8 ==
    <<"0", "7", "0", "1", "3", "c", "0", "0">>

HEADER9 ==
    <<"0", "7", "0", "2", "1", "8", "0", "0">>

BODY0 ==
    <<"f", "f", "f", "f", "f", "f", "f", "f", "f", "f", "f", "f", "f", "f", "f", "f", "f", "f", "f", "f",
      "f", "f", "f", "f", "f", "f", "f", "f", "0", "0", "f", "f", "f", "f", "f", "f", "f", "f", "f", "f",
      "0", "0", "f", "f", "f", "f", "0", "0", "f", "f", "f", "f", "f", "f", "f", "f", "f", "f", "0", "0",
      "f", "f", "f", "f", "f", "f", "f", "f", "f", "f", "f", "f", "f", "f", "f", "f", "f", "f", "f", "f",
      "f", "f", "f", "f", "f", "f", "f", "f", "f", "f", "0", "0", "0", "0", "f", "f", "f", "f", "f", "f",
      "f", "f", "f", "f", "f", "f", "0", "0", "f", "f", "f", "f", "0", "0", "f", "f", "f", "f", "0", "0">>

BODY1 ==
    <<"f", "f", "f", "f", "0", "0", "0", "0", "f", "f", "f", "f", "f", "f", "f", "f", "f", "f", "f", "f",
      "f", "f", "f", "f", "0", "0", "f", "f", "f", "f", "0", "0", "f", "f", "f", "f", "0", "0", "0", "0",
      "f", "f", "f", "f", "f", "f", "f", "f", "f", "f", "0", "0", "f", "f", "f", "f", "f", "f", "f", "f",
      "f", "f", "0", "0", "f", "f", "f", "f", "0", "0", "0", "0", "f", "f", "f", "f", "f", "f", "f", "f",
      "f", "f", "0", "0", "f", "f", "f", "f", "f", "f", "0", "0", "f", "f", "0", "0", "f", "f", "f", "f",
      "0", "0", "0", "0", "f", "f", "f", "f", "f", "f", "f", "f", "f", "f", "f", "f", "f", "f", "f", "f">>

BODY2 ==
    <<"f", "f", "f", "f", "f", "f", "0", "0", "f", "f", "f", "f", "0", "0", "0", "0", "f", "f", "f", "f",
      "f", "f", "f", "f", "f", "f", "f", "f", "f", "f", "f", "f", "f", "f", "f", "f", "0", "0", "0", "0",
      "f", "f", "f", "f", "0", "0", "0", "0", "0", "0", "0", "0", "0", "0", "0", "0", "0", "0", "0", "0",
      "0", "0", "0", "0", "0", "0", "0", "0", "0", "0", "0", "0", "0", "0", "0", "0", "0", "0", "0", "0",
      "0", "0", "0", "0", "0", "0", "0", "0", "0", "0", "0", "0", "0", "0", "0", "0", "0", "0", "0", "0",
      "0", "0", "0", "0", "0", "0", "0", "0", "0", "0", "0", "0", "0", "0", "0", "0", "0", "0", "0", "0">>


\* ------------------------------------------------------------------------
\* Key layout and groups (main.rs:178-342)
\* ------------------------------------------------------------------------
\* get_keys(): the layout, one identifier per matrix position ("????" marks
\* an unused position).  Rust indexes it from 0; position p is get_keys[p + 1].
get_keys ==
    <<"esc", "\\", "tab", "capslock", "lshift", "lcontrol", "f12", "«",
      "f9", "9", "o", "l", ",", "<", "????", "leftarrow",
      "f1", "1", "q", "a", "????", "windows", "prtscrn", "????",
      "f10", "0", "p", "ç", ".", "????", "enter", "downarrow",
      "f2", "2", "w", "s", "z", "lalt", "sclock", "del",
      "f11", "'", "+", "º", "-", "????", "????", "rightarrow",
      "f3", "3", "e", "d", "x", "????", "pause", "delete",
      "????", "numpad7", "p1", "????", "numlock", "numpad6", "????", "????",
      "f4", "4", "r", "f", "c", "????", "insert", "end",
      "????", "numpad8", "p2", "????", "numpad/", "numpad1", "????", "????",
      "f5", "5", "t", "g", "v", "????", "home", "pgdown",
      "stop", "numpad9", "p3", "????", "numpad*", "numpad2", "????", "????",
      "f6", "6", "y", "h", "b", "????", "pgup", "rshift",
      "playlast", "????", "p4", "????", "numpad-", "numpad3", "????", "????",
      "f7", "7", "u", "j", "n", "altgr", "´", "rctrl",
      "play", "numpad4", "p5", "????", "numpad+", "numpad0", "????", "????",
      "f8", "8", "i", "k", "m", "fn", "~", "uparrow",
      "playnext", "numpad5", "????", "????", "numpadenter", "numpad.">>


\* get_key_groups(): group name -> the Vec of member identifiers, as written
\* ("system" lists "insert" twice).
get_key_groups ==
    [g \in {"pkeys", "fkeys", "media", "system", "arrows", "numpad"} |->
        CASE g = "pkeys" ->
               <<"p1", "p2", "p3", "p4", "p5">>
          [] g = "fkeys" ->
               <<"f1", "f2", "f3", "f4", "f5", "f6", "f7",
                 "f8", "f9", "f10", "f11", "f12">>
          [] g = "media" ->
               <<"play", "stop", "playlast", "playnext">>
          [] g = "system" ->
               <<"prtscrn", "sclock", "pause", "insert", "home", "insert", "pgup",
                 "delete", "end", "pgdown">>
          [] g = "arrows" ->
               <<"leftarrow", "rightarrow", "uparrow", "downarrow">>
          [] g = "numpad" ->
               <<"numlock", "numpad/", "numpad*", "numpad-", "numpad7", "numpad8", "numpad9",
                 "numpad+", "numpad4", "numpad5", "numpad6", "numpad1", "numpad2", "numpad3",
                 "numpad0", "numpad.", "numpadenter">>]

\* get_lfos(): the immutable tables handed to the resolver and the encoder.
get_lfos == [keys |-> get_keys, groups |-> get_key_groups]

\* ------------------------------------------------------------------------
\* Integer parsing and byte extraction
\* ------------------------------------------------------------------------
\* An unsigned integer of up to 32 bits is the record [hi, lo] of its two
\* 16-bit halves (value = hi * 65536 + lo), so that the full u32 range of the
\* color values is kept.
U32(hi, lo) == [hi |-> hi, lo |-> lo]
Pow2(n) == 2 ^ n

None == [some |-> FALSE]
Some(v) == [some |-> TRUE, value |-> v]

\* x fits the unsigned type of `bits` bits (u8: 8, u32: 32).
FitsBits(x, bits) ==
    IF bits >= 16 THEN x.hi < Pow2(bits - 16)
    ELSE x.hi = 0 /\ x.lo < Pow2(bits)

\* x * 16 + d on the halves (not yet reduced to any width).
MulAdd16(x, d) == U32(x.hi * 16 + x.lo \div 4096, (x.lo % 4096) * 16 + d)

\* char::to_digit(16) as used by from_str_radix: 0-9, a-f, A-F; -1 is None.
to_digit(c) ==
    CASE c = "0" -> 0 [] c = "1" -> 1 [] c = "2" -> 2 [] c = "3" -> 3
      [] c = "4" -> 4 [] c = "5" -> 5 [] c = "6" -> 6 [] c = "7" -> 7
      [] c = "8" -> 8 [] c = "9" -> 9
      [] c \in {"a", "A"} -> 10 [] c \in {"b", "B"} -> 11
      [] c \in {"c", "C"} -> 12 [] c \in {"d", "D"} -> 13
      [] c \in {"e", "E"} -> 14 [] c \in {"f", "F"} -> 15
      [] OTHER -> -1

\* The digit loop of from_str_radix: checked multiply and add; an invalid
\* digit or a value that does not fit the type is an Err (None here).
RECURSIVE accumulate_digits(_, _, _)
accumulate_digits(digits, acc, bits) ==
    IF digits = <<>> THEN Some(acc)
    ELSE LET d == to_digit(Head(digits)) IN
         IF d < 0 THEN None
         ELSE IF ~FitsBits(MulAdd16(acc, d), bits) THEN None
         ELSE accumulate_digits(Tail(digits), MulAdd16(acc, d), bits)

\* A digit loop that drops the characters that are no hex digits instead of
\* failing on them.
RECURSIVE accumulate_digits_lenient(_, _, _)
accumulate_digits_lenient(digits, acc, bits) ==
    IF digits = <<>> THEN Some(acc)
    ELSE LET d == to_digit(Head(digits)) IN
         IF d < 0 THEN accumulate_digits_lenient(Tail(digits), acc, bits)
         ELSE IF ~FitsBits(MulAdd16(acc, d), bits) THEN None
         ELSE accumulate_digits_lenient(Tail(digits), MulAdd16(acc, d), bits)

from_str_radix_lenient(s, bits) == accumulate_digits_lenient(s, U32(0, 0), bits)

\* {u8,u32}::from_str_radix(s, 16) for the unsigned type of `bits` bits: the
\* empty string is an error, one leading "+" is accepted (a "-" is not), a
\* sign alone is an error.
from_str_radix(s, bits) ==
    IF s = <<>> THEN None
    ELSE LET digits == IF Head(s) = "+" THEN Tail(s) ELSE s IN
         IF digits = <<>> THEN None
         ELSE accumulate_digits(digits, U32(0, 0), bits)

\* A decoder that stops one pair short: (0..s.len() - 2).step_by(2).
decode_hex_drop_last(s) ==
    [b \in 1..((Len(s) - 1) \div 2) |->
        from_str_radix(SubSeq(s, 2 * b - 1, 2 * b), 8).value.lo]

\* decode_hex: one byte per two characters, taken at i = 0, 2, 4, ...
decode_hex(s) ==
    [b \in 1..((Len(s) + 1) \div 2) |->
        from_str_radix(SubSeq(s, 2 * b - 1, 2 * b), 8).value.lo]

\* The bits ofset .. ofset+7 of a color (0 <= ofset <= 16), as
\* (color >> ofset) & mask with mask + 1 = modulus.
ShiftMask(color, ofset, modulus) ==
    ((color.hi % modulus) * Pow2(16 - ofset) + color.lo \div Pow2(ofset)) % modulus

\* A color_component whose mask is 0x7f.
color_component_7bit(color, ofset) == ShiftMask(color, ofset, 128)

\* color_component: (color >> ofset & 0xff) as u8; >> binds tighter than &.
color_component(color, ofset) == ShiftMask(color, ofset, 256)

\* ------------------------------------------------------------------------
\* HashMap<String, u32>
\* ------------------------------------------------------------------------
EmptyMap == [x \in {} |-> 0]

\* An insert that keeps the value of a key that is already mapped.
HashMapInsertIfAbsent(m, k, v) ==
    [x \in DOMAIN m \cup {k} |-> IF x \in DOMAIN m THEN m[x] ELSE v]

\* HashMap::insert: the new value replaces the old one.
HashMapInsert(m, k, v) ==
    [x \in DOMAIN m \cup {k} |-> IF x = k THEN v ELSE m[x]]

\* HashMap::get
HashMapGet(m, k) == IF k \in DOMAIN m THEN Some(m[k]) ELSE None

\* ------------------------------------------------------------------------
\* Command line (std::env::args) and the tokens the model draws it from
\* ------------------------------------------------------------------------
\* args[0], the program name.
ProgramName == "lfos"

\* Tokens tried in a name position: the six groups, a key of a group, a key
\* of no group, the default name, a name the layout does not have, the
\* layout's "unused" marker, and the two flags.
NameTokens ==
    {"pkeys", "fkeys", "media", "system", "arrows", "numpad",
     "p1", "esc", "all", "bogus", "????", "--help", "--version"}

\* Tokens tried in a color position: 24-bit colors (lower and upper case
\* digits), a 25-bit value, a signed value, a non-hex word, the empty
\* string, a value of 33 bits, and a flag.
ColorTokens ==
    {"ff0000", "00ff00", "12abEF", "1ff0000", "+ff",
     "zz", "", "100000000", "--help"}

\* as_str(): the characters of a token that the code parses.
Chars(t) ==
    CASE t = "ff0000" -> <<"f", "f", "0", "0", "0", "0">>
      [] t = "00ff00" -> <<"0", "0", "f", "f", "0", "0">>
      [] t = "12abEF" -> <<"1", "2", "a", "b", "E", "F">>
      [] t = "1ff0000" -> <<"1", "f", "f", "0", "0", "0", "0">>
      [] t = "+ff" -> <<"+", "f", "f">>
      [] t = "zz" -> <<"z", "z">>
      [] t = "" -> <<>>
      [] t = "100000000" -> <<"1", "0", "0", "0", "0", "0", "0", "0", "0">>
      [] t = "--help" -> <<"-", "-", "h", "e", "l", "p">>

\* The tokens of the command lines of a complete run: a group and a flag; a
\* color, a signed color, a word that is no color and the empty string.
RunNameTokens == {"pkeys", "--help"}
RunColorTokens == {"ff0000", "+ff", "zz", ""}

PairLists(names, colors, p) == [1..p -> names \X colors]
Flatten(ps) == [i \in 1..(2 * Len(ps)) |-> ps[(i + 1) \div 2][2 - (i % 2)]]

\* Every command line of at most n tokens after the program name, names and
\* colors alternating (an odd count ends with a name).
ArgLists(names, colors, n) ==
    {<<ProgramName>> \o Flatten(ps) :
        ps \in UNION {PairLists(names, colors, p) : p \in 0..(n \div 2)}}
    \cup
    {<<ProgramName>> \o Flatten(ps) \o <<t>> :
        ps \in UNION {PairLists(names, colors, p) : p \in 0..((n - 1) \div 2)},
        t \in IF n >= 1 THEN names ELSE {}}

\* ------------------------------------------------------------------------
\* try_parse_cmd (main.rs:398-437)
\* ------------------------------------------------------------------------
\* A group loop that stops one member early.
RECURSIVE InsertAllButLast(_, _, _)
InsertAllButLast(overrides, values, value) ==
    IF Len(values) <= 1 THEN overrides
    ELSE InsertAllButLast(HashMapInsert(overrides, Head(values), value),
                          Tail(values), value)

\* The for loop over a group's Vec: one insert per listed member, in order.
RECURSIVE InsertAll(_, _, _)
InsertAll(overrides, values, value) ==
    IF values = <<>> THEN overrides
    ELSE InsertAll(HashMapInsert(overrides, Head(values), value),
                   Tail(values), value)

\* A pair whose group starts a new table instead of extending the old one.
ApplyPairFresh(lfos, overrides, key, value) ==
    IF key \in DOMAIN lfos.groups
    THEN InsertAll(EmptyMap, lfos.groups[key], value)
    ELSE HashMapInsert(overrides, key, value)

\* A pair whose name, when the layout does not have it, is taken as "all".
ApplyPairUnknownAsAll(lfos, overrides, key, value) ==
    IF key \in DOMAIN lfos.groups
    THEN InsertAll(overrides, lfos.groups[key], value)
    ELSE IF \E j \in DOMAIN lfos.keys : lfos.keys[j] = key
    THEN HashMapInsert(overrides, key, value)
    ELSE HashMapInsert(overrides, "all", value)

\* One pair (key, value) applied to the table (main.rs:422-433).
ApplyPair(lfos, overrides, key, value) ==
    IF key \in DOMAIN lfos.groups
    THEN InsertAll(overrides, lfos.groups[key], value)
    ELSE HashMapInsert(overrides, key, value)

\* for i in (1..args.len()).step_by(2): i is the Rust (0-based) index of the
\* name; `?` returns the parse error of the first bad color.
RECURSIVE ParsePairs(_, _, _, _)
ParsePairs(lfos, args, i, overrides) ==
    IF i >= Len(args) THEN [kind |-> "Ok", overrides |-> overrides]
    ELSE LET key == args[i + 1]
             value == from_str_radix(Chars(args[i + 2]), 32)
         IN  IF ~value.some THEN [kind |-> "Err", overrides |-> EmptyMap]
             ELSE ParsePairs(lfos, args, i + 2,
                             ApplyPair(lfos, overrides, key, value.value))

\* The first flag among the arguments decides between usage and version
\* (both end the process with exit code 0 inside try_parse_cmd).
FirstFlag(args) ==
    CHOOSE i \in 1..Len(args) :
        /\ args[i] \in {"--help", "--version"}
        /\ \A j \in 1..(i - 1) : args[j] \notin {"--help", "--version"}

try_parse_cmd(lfos, args) ==
    IF \E i \in 1..Len(args) : args[i] \in {"--help", "--version"}
    THEN [kind |-> IF args[FirstFlag(args)] = "--help" THEN "usage" ELSE "version",
          overrides |-> EmptyMap]
    ELSE IF Len(args) % 2 # 1
    THEN [kind |-> "Err", overrides |-> EmptyMap]
    ELSE ParsePairs(lfos, args, 1, EmptyMap)

\* ------------------------------------------------------------------------
\* build_table (main.rs:439-510)
\* ------------------------------------------------------------------------
Line(header, body, ofset) == [header |-> header, body |-> body, ofset |-> ofset]

\* The nine lines with the channels in the order blue, green, red.
lines_low_channel_first ==
    <<Line(HEADER1, BODY0, 0),  Line(HEADER2, BODY1, 0),  Line(HEADER3, BODY2, 0),
      Line(HEADER4, BODY0, 8),  Line(HEADER5, BODY1, 8),  Line(HEADER6, BODY2, 8),
      Line(HEADER7, BODY0, 16), Line(HEADER8, BODY1, 16), Line(HEADER9, BODY2, 16)>>

lines ==
    <<Line(HEADER1, BODY0, 16), Line(HEADER2, BODY1, 16), Line(HEADER3, BODY2, 16),
      Line(HEADER4, BODY0, 8),  Line(HEADER5, BODY1, 8),  Line(HEADER6, BODY2, 8),
      Line(HEADER7, BODY0, 0),  Line(HEADER8, BODY1, 0),  Line(HEADER9, BODY2, 0)>>

WHITE == U32(255, 65535)

\* overrides.get("all").unwrap_or(&0xffffff)
DefaultColor(overrides) ==
    IF HashMapGet(overrides, "all").some THEN HashMapGet(overrides, "all").value
    ELSE WHITE

\* A lookup in which a given "all" wins over the key's own entry.
KeyColorAllFirst(overrides, key) ==
    IF HashMapGet(overrides, "all").some THEN HashMapGet(overrides, "all").value
    ELSE IF HashMapGet(overrides, key).some THEN HashMapGet(overrides, key).value
    ELSE WHITE

\* match overrides.get(lfos.keys[j]) (main.rs:498-501)
KeyColor(overrides, key) ==
    IF HashMapGet(overrides, key).some THEN HashMapGet(overrides, key).value
    ELSE DefaultColor(overrides)

\* An index computed from the line number itself: l * 60 + i / 2.
LayoutIndexByLine(l, i) == l * 60 + i \div 2

\* let j = (l % 3) * 60 + i / 2, for line l (0-based) and character index i.
LayoutIndex(l, i) == (l % 3) * 60 + i \div 2

\* The body of the inner loop for character index i = 0, 2, 4, ... of line l:
\* only the first of the two characters is compared with '0'.
BodyByte(lfos, overrides, l, i) ==
    LET entry == lines[l + 1] IN
    IF entry.body[i + 1] = "0" THEN 0
    ELSE color_component(KeyColor(overrides, lfos.keys[LayoutIndex(l, i) + 1]),
                         entry.ofset)

\* An encoder that emits nothing, instead of a zero byte, where the body
\* template has '0'.
EncodeLineSkipZero(lfos, overrides, l) ==
    LET body == lines[l + 1].body
        kept == SelectSeq([b \in 1..((Len(body) + 1) \div 2) |-> b],
                          LAMBDA b : body[2 * b - 1] # "0")
    IN decode_hex(lines[l + 1].header)
       \o [j \in 1..Len(kept) |-> BodyByte(lfos, overrides, l, 2 * (kept[j] - 1))]

\* One line report: the decoded header, then one byte per two body characters.
EncodeLine(lfos, overrides, l) ==
    decode_hex(lines[l + 1].header)
    \o [b \in 1..((Len(lines[l + 1].body) + 1) \div 2) |->
            BodyByte(lfos, overrides, l, 2 * (b - 1))]

build_table(lfos, overrides) ==
    <<decode_hex(HEADER0)>>
    \o [n \in 1..Len(lines) |-> EncodeLine(lfos, overrides, n - 1)]

\* ------------------------------------------------------------------------
\* USB devices: descriptor trees and the bus
\* ------------------------------------------------------------------------
EndpointDesc(direction, transfer_type, address) ==
    [direction |-> direction, transfer_type |-> transfer_type, address |-> address]
InterfaceDesc(interface_number, setting_number, endpoints) ==
    [interface_number |-> interface_number, setting_number |-> setting_number,
     endpoints |-> endpoints]
ConfigDesc(number, interfaces) == [number |-> number, interfaces |-> interfaces]

\* A keyboard: configuration 1, an IN-only interface 0 and an interface 1
\* with an IN and an OUT interrupt endpoint.
TreeKeyboard ==
    <<ConfigDesc(1,
        << <<InterfaceDesc(0, 0, <<EndpointDesc("In", "Interrupt", 129)>>)>>,
           <<InterfaceDesc(1, 0, <<EndpointDesc("In", "Interrupt", 130),
                                   EndpointDesc("Out", "Interrupt", 2)>>)>> >>)>>

\* No OUT interrupt endpoint anywhere (an IN interrupt and an OUT bulk one).
TreeNoOutInterrupt ==
    <<ConfigDesc(1,
        << <<InterfaceDesc(0, 0, <<EndpointDesc("In", "Interrupt", 129),
                                   EndpointDesc("Out", "Bulk", 1)>>)>> >>)>>

\* Two configurations; the first has its OUT interrupt endpoint in the
\* second alternate setting, after an OUT bulk endpoint.
TreeTwoConfigs ==
    <<ConfigDesc(1,
        << <<InterfaceDesc(0, 0, <<EndpointDesc("Out", "Bulk", 1)>>),
             InterfaceDesc(0, 1, <<EndpointDesc("In", "Interrupt", 131),
                                   EndpointDesc("Out", "Interrupt", 3)>>)>> >>),
      ConfigDesc(2,
        << <<InterfaceDesc(2, 0, <<EndpointDesc("Out", "Interrupt", 4)>>)>> >>)>>

DeviceTrees == {TreeKeyboard, TreeNoOutInterrupt, TreeTwoConfigs}

\* The interface numbers of a tree.
InterfaceNumbers(tree) ==
    UNION {UNION {{tree[n].interfaces[i][a].interface_number :
                      a \in 1..Len(tree[n].interfaces[i])} :
                  i \in 1..Len(tree[n].interfaces)} :
           n \in 1..Len(tree)}

\* The vendor and product identifier main() looks for (main.rs:519).
VENDOR_ID == 1008
PRODUCT_ID == 8001
\* An identifier of some other vendor.
OTHER_ID == VENDOR_ID + 1

\* A device on the bus: whether its descriptor can be read, its identifiers,
\* whether open() succeeds, and its descriptor tree.
BusDevice(desc_ok, vid, pid, open_ok, tree) ==
    [desc_ok |-> desc_ok, vendor_id |-> vid, product_id |-> pid,
     open_ok |-> open_ok, tree |-> tree]

BusDevices ==
    {BusDevice(TRUE, OTHER_ID, PRODUCT_ID, TRUE, TreeKeyboard),
     BusDevice(FALSE, VENDOR_ID, PRODUCT_ID, TRUE, TreeKeyboard),
     BusDevice(TRUE, VENDOR_ID, PRODUCT_ID, FALSE, TreeKeyboard)}
    \cup {BusDevice(TRUE, VENDOR_ID, PRODUCT_ID, TRUE, t) : t \in DeviceTrees}

MaxDevices == 2
Buses == UNION {[1..n -> BusDevices] : n \in 0..MaxDevices}

\* ------------------------------------------------------------------------
\* open_device (main.rs:18-43)
\* ------------------------------------------------------------------------
\* The for loop over the devices from position d on: a descriptor that cannot
\* be read, other identifiers or a failed open() go on to the next device.
RECURSIVE ScanDevices(_, _, _, _)
ScanDevices(bus, d, vid, pid) ==
    IF d > Len(bus) THEN None
    ELSE IF ~bus[d].desc_ok THEN ScanDevices(bus, d + 1, vid, pid)
    ELSE IF bus[d].vendor_id = vid /\ bus[d].product_id = pid /\ bus[d].open_ok
         THEN Some(bus[d].tree)
    ELSE ScanDevices(bus, d + 1, vid, pid)

\* context.devices() failing gives None.
open_device(enum_ok, bus, vid, pid) ==
    IF ~enum_ok THEN None ELSE ScanDevices(bus, 1, vid, pid)

\* open() was called on some device of the bus.
OpenAttempted(enum_ok, bus, vid, pid) ==
    /\ enum_ok
    /\ \E d \in 1..Len(bus) :
          bus[d].desc_ok /\ bus[d].vendor_id = vid /\ bus[d].product_id = pid

\* ------------------------------------------------------------------------
\* find_writable_endpoint (main.rs:45-84)
\* ------------------------------------------------------------------------
Endpoint(config, iface, setting, address) ==
    [config |-> config, iface |-> iface, setting |-> setting, address |-> address]

\* for (endpoint_number, endpoint_desc) in endpoint_descriptors().enumerate()
RECURSIVE ScanEndpoints(_, _, _, _)
ScanEndpoints(config_desc, interface_desc, e, transfer_type) ==
    IF e > Len(interface_desc.endpoints) THEN None
    ELSE IF /\ interface_desc.endpoints[e].direction = "Out"
            /\ interface_desc.endpoints[e].transfer_type = transfer_type
         THEN Some(Endpoint(config_desc.number,
                            interface_desc.interface_number,
                            interface_desc.setting_number,
                            interface_desc.endpoints[e].address))
    ELSE ScanEndpoints(config_desc, interface_desc, e + 1, transfer_type)

\* A scan that looks at the first descriptor of an interface only.
ScanSettingsFirstOnly(config_desc, interface, a, transfer_type) ==
    IF a > Len(interface) THEN None
    ELSE ScanEndpoints(config_desc, interface[a], 1, transfer_type)

\* for interface_desc in interface.descriptors()
RECURSIVE ScanSettings(_, _, _, _)
ScanSettings(config_desc, interface, a, transfer_type) ==
    IF a > Len(interface) THEN None
    ELSE LET r == ScanEndpoints(config_desc, interface[a], 1, transfer_type) IN
         IF r.some THEN r
         ELSE ScanSettings(config_desc, interface, a + 1, transfer_type)

\* for (interface_number, interface) in config_desc.interfaces().enumerate()
RECURSIVE ScanInterfaces(_, _, _)
ScanInterfaces(config_desc, i, transfer_type) ==
    IF i > Len(config_desc.interfaces) THEN None
    ELSE LET r == ScanSettings(config_desc, config_desc.interfaces[i], 1,
                               transfer_type) IN
         IF r.some THEN r
         ELSE ScanInterfaces(config_desc, i + 1, transfer_type)

\* for n in 0..num_configurations(): a configuration whose descriptor cannot
\* be read (n not in `readable`) is skipped.
RECURSIVE ScanConfigs(_, _, _, _)
ScanConfigs(tree, readable, n, transfer_type) ==
    IF n >= Len(tree) THEN None
    ELSE IF n \notin readable
         THEN ScanConfigs(tree, readable, n + 1, transfer_type)
    ELSE LET r == ScanInterfaces(tree[n + 1], 1, transfer_type) IN
         IF r.some THEN r
         ELSE ScanConfigs(tree, readable, n + 1, transfer_type)

find_writable_endpoint(tree, readable, transfer_type) ==
    ScanConfigs(tree, readable, 0, transfer_type)

\* ------------------------------------------------------------------------
\* The program: main (main.rs:512-534) and write_endpoint /
\* configure_endpoint (main.rs:86-149), one action per call on the handle
\* ------------------------------------------------------------------------
VARIABLES
    args,               \* std::env::args()
    pc,                 \* the position of main
    parsed,             \* how try_parse_cmd ended: "Ok", "Err", "usage", "version"
    overrides,          \* the HashMap try_parse_cmd returned
    table,              \* the Vec<Vec<u8>> build_table returned
    device,             \* the opened device's descriptor tree (None: not opened)
    kernel_driver,      \* the interfaces a kernel driver is attached to
    k,                  \* the number of lines of `table` the for loop has finished
    ep,                 \* the Option<Endpoint> of the current iteration
    data,               \* the line passed to write_endpoint
    has_kernel_driver,  \* write_endpoint's local
    log,                \* the calls on the handle made by the latest write_endpoint
    resolved,           \* report index -> number of find_writable_endpoint calls
    cycles,             \* report index -> number of write_endpoint calls
    io,                 \* the kinds of USB calls made so far
    readable,           \* the configurations whose descriptor the latest
                        \* find_writable_endpoint could read
    requested           \* the transfer_type the latest find_writable_endpoint
                        \* was called with

vars == <<args, pc, parsed, overrides, table, device, kernel_driver, k, ep,
          data, has_kernel_driver, log, resolved, cycles, io, readable,
          requested>>

\* The transfer type main() asks for.
TRANSFER_TYPE == "Interrupt"

\* The number of reports of a table.
NumReports == Len(lines) + 1
ReportIndices == 0..(NumReports - 1)

\* A command line has at most MaxArgs tokens after the program name.
MaxArgs == 4

InitRest ==
    /\ pc = "start"
    /\ parsed = "none"
    /\ overrides = EmptyMap
    /\ table = <<>>
    /\ device = None
    /\ kernel_driver = {}
    /\ k = 0
    /\ ep = None
    /\ data = <<>>
    /\ has_kernel_driver = FALSE
    /\ log = <<>>
    /\ resolved = [j \in ReportIndices |-> 0]
    /\ cycles = [j \in ReportIndices |-> 0]
    /\ io = {}
    /\ readable = {}
    /\ requested = "none"

Init == args \in ArgLists(RunNameTokens, RunColorTokens, MaxArgs) /\ InitRest

Logged(op, ok) == [op |-> op, ok |-> ok]

\* match try_parse_cmd(&lfos, &args): --help / --version end the process in
\* try_parse_cmd, Err prints the error and main returns.
ParseCmd ==
    /\ pc = "start"
    /\ LET r == try_parse_cmd(get_lfos, args) IN
        /\ parsed' = r.kind
        /\ overrides' = r.overrides
        /\ pc' = CASE r.kind = "Ok" -> "build_table"
                   [] r.kind = "Err" -> "done"
                   [] OTHER -> "exited"
    /\ UNCHANGED <<readable, requested,
                   args, table, device, kernel_driver, k, ep, data,
                   has_kernel_driver, log, resolved, cycles, io>>

\* let table = build_table(lfos, overrides);
BuildTable ==
    /\ pc = "build_table"
    /\ table' = build_table(get_lfos, overrides)
    /\ pc' = "context_new"
    /\ UNCHANGED <<readable, requested,
                   args, parsed, overrides, device, kernel_driver, k, ep, data,
                   has_kernel_driver, log, resolved, cycles, io>>

\* rusb::Context::new().unwrap()
ContextNew ==
    /\ pc = "context_new"
    /\ \E ok \in BOOLEAN : pc' = IF ok THEN "open_device" ELSE "panic_context"
    /\ UNCHANGED <<readable, requested,
                   args, parsed, overrides, table, device, kernel_driver, k, ep,
                   data, has_kernel_driver, log, resolved, cycles, io>>

\* match open_device(&mut context, 0x03f0, 0x1f41): None ends the run.
OpenDevice ==
    /\ pc = "open_device"
    /\ \E enum_ok \in BOOLEAN, bus \in Buses :
        LET r == open_device(enum_ok, bus, VENDOR_ID, PRODUCT_ID) IN
        /\ device' = r
        /\ pc' = IF r.some THEN "next_line" ELSE "done"
        /\ io' = io \cup {"devices"}
                    \cup (IF OpenAttempted(enum_ok, bus, VENDOR_ID, PRODUCT_ID)
                          THEN {"open"} ELSE {})
        /\ \E attached \in BOOLEAN :
              kernel_driver' = IF r.some /\ attached
                               THEN InterfaceNumbers(r.value) ELSE {}
    /\ UNCHANGED <<readable, requested,
                   args, parsed, overrides, table, k, ep, data,
                   has_kernel_driver, log, resolved, cycles>>

\* for line in table: the next line, in the order of the Vec.
NextLine(t, n) == t[n + 1]

\* An iteration that walks the descriptors only while it has no endpoint yet
\* and reuses the endpoint of the previous report afterwards.
FindEndpointCached ==
    /\ pc = "next_line"
    /\ k < Len(table)
    /\ IF ep.some
       THEN /\ pc' = "write_endpoint"
            /\ data' = NextLine(table, k)
            /\ cycles' = [cycles EXCEPT ![k] = @ + 1]
            /\ UNCHANGED <<ep, resolved, io, readable, requested>>
       ELSE /\ \E read \in SUBSET (0..(Len(device.value) - 1)) :
                LET r == find_writable_endpoint(device.value, read,
                                                TRANSFER_TYPE) IN
                /\ readable' = read
                /\ ep' = r
                /\ IF r.some
                   THEN /\ pc' = "write_endpoint"
                        /\ data' = NextLine(table, k)
                        /\ cycles' = [cycles EXCEPT ![k] = @ + 1]
                   ELSE /\ pc' = "panic_endpoint"
                        /\ UNCHANGED <<data, cycles>>
            /\ resolved' = [resolved EXCEPT ![k] = @ + 1]
            /\ io' = io \cup {"config_descriptor"}
            /\ requested' = TRANSFER_TYPE
    /\ UNCHANGED <<args, parsed, overrides, table, device, kernel_driver, k,
                   has_kernel_driver, log>>

\* One iteration's find_writable_endpoint(...).unwrap() and the call of
\* write_endpoint.  Each configuration descriptor read may fail.
FindEndpoint ==
    /\ pc = "next_line"
    /\ k < Len(table)
    /\ \E read \in SUBSET (0..(Len(device.value) - 1)) :
        LET r == find_writable_endpoint(device.value, read, TRANSFER_TYPE) IN
        /\ readable' = read
        /\ ep' = r
        /\ IF r.some
           THEN /\ pc' = "write_endpoint"
                /\ data' = NextLine(table, k)
                /\ cycles' = [cycles EXCEPT ![k] = @ + 1]
           ELSE /\ pc' = "panic_endpoint"
                /\ UNCHANGED <<data, cycles>>
    /\ resolved' = [resolved EXCEPT ![k] = @ + 1]
    /\ io' = io \cup {"config_descriptor"}
    /\ requested' = TRANSFER_TYPE
    /\ UNCHANGED <<args, parsed, overrides, table, device, kernel_driver, k,
                   has_kernel_driver, log>>

\* The for loop is over: main returns.
LoopEnd ==
    /\ pc = "next_line"
    /\ k >= Len(table)
    /\ pc' = "done"
    /\ UNCHANGED <<readable, requested,
                   args, parsed, overrides, table, device, kernel_driver, k, ep,
                   data, has_kernel_driver, log, resolved, cycles, io>>

\* handle.kernel_driver_active(endpoint.iface): Ok(true) goes on to the
\* detach, Ok(false) and Err(_) make has_kernel_driver false.
KernelDriverActive ==
    /\ pc = "write_endpoint"
    /\ \E ok \in BOOLEAN :
        /\ log' = <<Logged("kernel_driver_active", ok)>>
        /\ IF ok /\ ep.value.iface \in kernel_driver
           THEN pc' = "detach_kernel_driver" /\ UNCHANGED has_kernel_driver
           ELSE pc' = "set_active_configuration" /\ has_kernel_driver' = FALSE
    /\ io' = io \cup {"kernel_driver_active"}
    /\ UNCHANGED <<readable, requested,
                   args, parsed, overrides, table, device, kernel_driver, k, ep,
                   data, resolved, cycles>>

\* A detach whose Err is propagated with `?`: write_endpoint returns at once.
DetachKernelDriverOrReturn ==
    /\ pc = "detach_kernel_driver"
    /\ \E ok \in BOOLEAN :
        /\ log' = Append(log, Logged("detach_kernel_driver", ok))
        /\ kernel_driver' = IF ok THEN kernel_driver \ {ep.value.iface}
                            ELSE kernel_driver
        /\ pc' = IF ok THEN "set_active_configuration" ELSE "next_line"
        /\ k' = IF ok THEN k ELSE k + 1
    /\ has_kernel_driver' = TRUE
    /\ io' = io \cup {"detach_kernel_driver"}
    /\ UNCHANGED <<readable, requested,
                   args, parsed, overrides, table, device, ep, data,
                   resolved, cycles>>

\* handle.detach_kernel_driver(endpoint.iface).ok(); true
DetachKernelDriver ==
    /\ pc = "detach_kernel_driver"
    /\ \E ok \in BOOLEAN :
        /\ log' = Append(log, Logged("detach_kernel_driver", ok))
        /\ kernel_driver' = IF ok THEN kernel_driver \ {ep.value.iface}
                            ELSE kernel_driver
    /\ has_kernel_driver' = TRUE
    /\ pc' = "set_active_configuration"
    /\ io' = io \cup {"detach_kernel_driver"}
    /\ UNCHANGED <<readable, requested,
                   args, parsed, overrides, table, device, k, ep, data,
                   resolved, cycles>>

\* A configuration step whose Err is propagated out of the for loop of main.
ConfigureStepAbort(at, op, next) ==
    /\ pc = at
    /\ \E ok \in BOOLEAN :
        /\ log' = Append(log, Logged(op, ok))
        /\ pc' = IF ok THEN next ELSE "done"
    /\ io' = io \cup {op}
    /\ UNCHANGED <<readable, requested,
                   args, parsed, overrides, table, device, kernel_driver, k, ep,
                   data, has_kernel_driver, resolved, cycles>>

\* A configuration step whose Err is ignored: the next step runs anyway.
ConfigureStepIgnoreErr(at, op, next) ==
    /\ pc = at
    /\ \E ok \in BOOLEAN :
        /\ log' = Append(log, Logged(op, ok))
        /\ pc' = next
    /\ io' = io \cup {op}
    /\ UNCHANGED <<readable, requested,
                   args, parsed, overrides, table, device, kernel_driver, k, ep,
                   data, has_kernel_driver, resolved, cycles>>

\* A configuration step whose Err is propagated out of write_endpoint with
\* `?`, past the re-attach at its end.
ConfigureStepEarlyReturn(at, op, next) ==
    /\ pc = at
    /\ \E ok \in BOOLEAN :
        /\ log' = Append(log, Logged(op, ok))
        /\ pc' = IF ok THEN next ELSE "next_line"
        /\ k' = IF ok THEN k ELSE k + 1
    /\ io' = io \cup {op}
    /\ UNCHANGED <<readable, requested,
                   args, parsed, overrides, table, device, kernel_driver, ep,
                   data, has_kernel_driver, resolved, cycles>>

\* One `?` step of configure_endpoint: an Err returns from configure_endpoint
\* and write_endpoint prints "could not configure endpoint".
ConfigureStep(at, op, next) ==
    /\ pc = at
    /\ \E ok \in BOOLEAN :
        /\ log' = Append(log, Logged(op, ok))
        /\ pc' = IF ok THEN next ELSE "restore"
    /\ io' = io \cup {op}
    /\ UNCHANGED <<readable, requested,
                   args, parsed, overrides, table, device, kernel_driver, k, ep,
                   data, has_kernel_driver, resolved, cycles>>

\* handle.set_active_configuration(endpoint.config)?
SetActiveConfiguration ==
    ConfigureStep("set_active_configuration", "set_active_configuration",
                  "claim_interface")

\* handle.claim_interface(endpoint.iface)?
ClaimInterface ==
    ConfigureStep("claim_interface", "claim_interface", "set_alternate_setting")

\* handle.set_alternate_setting(endpoint.iface, endpoint.setting)?
SetAlternateSetting ==
    ConfigureStep("set_alternate_setting", "set_alternate_setting", "write")

\* match transfer_type: the write call made for a transfer type.
WriteOp(transfer_type) ==
    CASE transfer_type = "Interrupt" -> "write_interrupt"
      [] transfer_type = "Bulk" -> "write_bulk"
      [] OTHER -> "none"

\* The write with the one-second timeout; an Err is printed and nothing else.
Write ==
    /\ pc = "write"
    /\ IF WriteOp(TRANSFER_TYPE) = "none"
       THEN UNCHANGED <<log, io>>
       ELSE /\ \E ok \in BOOLEAN :
                log' = Append(log, Logged(WriteOp(TRANSFER_TYPE), ok))
            /\ io' = io \cup {WriteOp(TRANSFER_TYPE)}
    /\ pc' = "restore"
    /\ UNCHANGED <<readable, requested,
                   args, parsed, overrides, table, device, kernel_driver, k, ep,
                   data, has_kernel_driver, resolved, cycles>>

\* if has_kernel_driver { handle.attach_kernel_driver(endpoint.iface).ok(); }
\* and the return to the for loop of main.
AttachKernelDriver ==
    /\ pc = "restore"
    /\ has_kernel_driver
    /\ \E ok \in BOOLEAN :
        /\ log' = Append(log, Logged("attach_kernel_driver", ok))
        /\ kernel_driver' = IF ok THEN kernel_driver \cup {ep.value.iface}
                            ELSE kernel_driver
    /\ io' = io \cup {"attach_kernel_driver"}
    /\ k' = k + 1
    /\ pc' = "next_line"
    /\ UNCHANGED <<readable, requested,
                   args, parsed, overrides, table, device, ep, data,
                   has_kernel_driver, resolved, cycles>>

\* write_endpoint returns without a re-attach when has_kernel_driver is false.
ReturnWithoutAttach ==
    /\ pc = "restore"
    /\ ~has_kernel_driver
    /\ k' = k + 1
    /\ pc' = "next_line"
    /\ UNCHANGED <<readable, requested,
                   args, parsed, overrides, table, device, kernel_driver, ep,
                   data, has_kernel_driver, log, resolved, cycles, io>>

Next ==
    \/ ParseCmd
    \/ BuildTable
    \/ ContextNew
    \/ OpenDevice
    \/ FindEndpoint
    \/ LoopEnd
    \/ KernelDriverActive
    \/ DetachKernelDriver
    \/ SetActiveConfiguration
    \/ ClaimInterface
    \/ SetAlternateSetting
    \/ Write
    \/ AttachKernelDriver
    \/ ReturnWithoutAttach

\* The complete run.
Spec == Init /\ [][Next]_vars

\* The resolver and the encoder alone, on the command lines over all tokens.
InitEnc == args \in ArgLists(NameTokens, ColorTokens, MaxArgs) /\ InitRest
NextEnc == ParseCmd \/ BuildTable
SpecEnc == InitEnc /\ [][NextEnc]_vars

\* ------------------------------------------------------------------------
\* find_writable_endpoint on its own (main.rs:45-84): descriptor trees with
\* two configurations, two interfaces each, two alternate settings each and
\* two endpoints each, so that every level of the loop nest has a first and
\* a later element.  All endpoints are IN interrupt endpoints except at most
\* MaxOut, which are OUT interrupt or OUT bulk endpoints.
\* ------------------------------------------------------------------------
MaxOut == 2

WalkSlots == (1..2) \X (1..2) \X (1..2) \X (1..2)

\* The transfer types find_writable_endpoint is asked for.
TransferTypes == {"Interrupt", "Bulk"}

\* The tree whose slots in DOMAIN out are OUT endpoints of type out[slot].
WalkTree(out) ==
    [n \in 1..2 |->
        ConfigDesc(n,
            [i \in 1..2 |->
                [a \in 1..2 |->
                    InterfaceDesc(i - 1, a - 1,
                        [e \in 1..2 |->
                            IF <<n, i, a, e>> \in DOMAIN out
                            THEN EndpointDesc("Out", out[<<n, i, a, e>>], e)
                            ELSE EndpointDesc("In", "Interrupt", 128 + e)])]])]

\* The sets of at most m slots.
OutSlots(m) == {{}} \cup {{f[j] : j \in 1..m} : f \in [1..m -> WalkSlots]}

\* The trees with at most m OUT endpoints.
WalkTrees(m) ==
    UNION {{WalkTree(out) : out \in [slots -> TransferTypes]} :
           slots \in OutSlots(m)}

InitFind ==
    /\ device \in {Some(tree) : tree \in WalkTrees(MaxOut)}
    /\ pc = "find"
    /\ args = <<ProgramName>>
    /\ parsed = "none"
    /\ overrides = EmptyMap
    /\ table = <<>>
    /\ kernel_driver = {}
    /\ k = 0
    /\ ep = None
    /\ data = <<>>
    /\ has_kernel_driver = FALSE
    /\ log = <<>>
    /\ resolved = [j \in ReportIndices |-> 0]
    /\ cycles = [j \in ReportIndices |-> 0]
    /\ io = {}
    /\ readable = {}
    /\ requested = "none"

\* One call find_writable_endpoint(device, device_desc, transfer_type); each
\* config_descriptor(n) of the call succeeds (n in read) or fails.
Walk ==
    /\ pc \in {"find", "found"}
    /\ \E read \in SUBSET (0..(Len(device.value) - 1)),
          transfer_type \in TransferTypes :
        /\ ep' = find_writable_endpoint(device.value, read, transfer_type)
        /\ readable' = read
        /\ requested' = transfer_type
    /\ pc' = "found"
    /\ UNCHANGED <<args, parsed, overrides, table, device, kernel_driver, k,
                   data, has_kernel_driver, log, resolved, cycles, io>>

NextFind == Walk

SpecFind == InitFind /\ [][NextFind]_vars

\* ------------------------------------------------------------------------
\* Properties of the complete run (Spec)
\* ------------------------------------------------------------------------
\* The positions of main inside write_endpoint.
CyclePcs ==
    {"write_endpoint", "detach_kernel_driver", "set_active_configuration",
     "claim_interface", "set_alternate_setting", "write", "restore"}

\* A configuration step or the write failed in the latest write_endpoint.
FailedStep(l) ==
    \E i \in DOMAIN l :
        /\ ~l[i].ok
        /\ l[i].op \in {"set_active_configuration", "claim_interface",
                        "set_alternate_setting", "write_interrupt", "write_bulk"}

\* C1: when endpoint resolution returns "not found" for a report the run does
\* not crash: the report is skipped and every later report is still resolved,
\* so a run on an opened device ends with all ten reports resolved.
C1_EndpointNotFoundSkipsReport ==
    /\ pc # "panic_endpoint"
    /\ (pc = "done" /\ device.some) => \A j \in ReportIndices : resolved[j] = 1

\* C2: a configuration failure or a write failure on a report never stops the
\* run: as long as an endpoint is resolved each time, every report is resolved
\* once and handed to write_endpoint once, in the order of the table, none is
\* re-sent, and the run on an opened device ends only after all ten reports
\* (or in the panic of an unresolved endpoint).
C2_FailureNeverStopsRun ==
    /\ \A j \in ReportIndices : resolved[j] <= 1 /\ cycles[j] <= 1
    /\ pc \in CyclePcs \cup {"next_line"} =>
          \A j \in ReportIndices :
              /\ j < k => resolved[j] = 1 /\ cycles[j] = 1
              /\ j > k => resolved[j] = 0 /\ cycles[j] = 0
    /\ pc \in CyclePcs =>
          /\ k \in ReportIndices
          /\ resolved[k] = 1 /\ cycles[k] = 1
          /\ ep.some
          /\ data = table[k + 1]
    /\ pc = "panic_endpoint" => ~ep.some
    /\ (pc = "done" /\ device.some) =>
          /\ k = NumReports
          /\ \A j \in ReportIndices : resolved[j] = 1 /\ cycles[j] = 1

\* C2 witness: report 4 failed in a configuration step or in the write, and
\* report 5 has been resolved and handed to write_endpoint.
C2_Witness ==
    /\ pc = "write_endpoint"
    /\ k = 5
    /\ FailedStep(log)
    /\ resolved[5] = 1 /\ cycles[5] = 1
    /\ data = table[6]

\* The characters from_str_radix(_, 16) takes as digits.
HexDigitChars ==
    {"0", "1", "2", "3", "4", "5", "6", "7", "8", "9",
     "a", "b", "c", "d", "e", "f", "A", "B", "C", "D", "E", "F"}

\* s is a base-16 unsigned integer literal: one or more hex digits, after an
\* optional "+".
IsHexLiteral(s) ==
    LET digits == IF s # <<>> /\ Head(s) = "+" THEN Tail(s) ELSE s IN
    /\ digits # <<>>
    /\ \A i \in DOMAIN digits : digits[i] \in HexDigitChars

\* The number of tokens after the program name is odd.
OddTokens(a) == (Len(a) - 1) % 2 = 1

\* Some token in a color position (the second of a pair) is no hex literal.
BadColor(a) ==
    \E i \in 1..Len(a) : i >= 3 /\ i % 2 = 1 /\ ~IsHexLiteral(Chars(a[i]))

HasFlag(a) == \E i \in 1..Len(a) : a[i] \in {"--help", "--version"}

\* C3: for a command line with an odd number of name/color tokens or with a
\* color token that is no base-16 unsigned integer, try_parse_cmd returns an
\* Err (it never panics) and the run makes no USB call at all: no device
\* enumeration or open, no endpoint resolution, detach, configure or write.
\* (A command line holding --help or --version ends the process in
\* try_parse_cmd before the tokens are looked at, also without any USB call.)
C3_InputErrorNoDeviceIO ==
    (OddTokens(args) \/ BadColor(args)) =>
        /\ io = {} /\ ~device.some /\ log = <<>> /\ table = <<>>
        /\ pc \in {"start", "done", "exited"}
        /\ (pc # "start" /\ ~HasFlag(args)) => parsed = "Err" /\ pc = "done"
        /\ (pc # "start" /\ HasFlag(args)) => pc = "exited"

\* C3 witness: an even number of tokens with a color that is no hex literal
\* was rejected and the run is over.
C3_Witness ==
    /\ ~OddTokens(args) /\ BadColor(args) /\ ~HasFlag(args)
    /\ pc = "done" /\ parsed = "Err" /\ io = {}

\* ------------------------------------------------------------------------
\* Properties of the resolver and the encoder (SpecEnc)
\* ------------------------------------------------------------------------
\* The table has been built from an accepted command line.
Built == pc = "context_new" /\ parsed = "Ok"

\* The pairs of a command line: pair n (n = 1, 2, ...) is name a[2n], color
\* token a[2n + 1] (a[1] is the program name).
NumPairs(a) == (Len(a) - 1) \div 2
PairName(a, n) == a[2 * n]
PairColor(a, n) == from_str_radix(Chars(a[2 * n + 1]), 32).value

Members(g) == {get_key_groups[g][i] : i \in DOMAIN get_key_groups[g]}

\* Pair n names the key: directly, or through a group the key belongs to.
Touches(a, n, key) ==
    IF PairName(a, n) \in DOMAIN get_key_groups
    THEN key \in Members(PairName(a, n))
    ELSE key = PairName(a, n)

Named(a, key) == \E n \in 1..NumPairs(a) : Touches(a, n, key)

\* The last pair that names the key.
LastPair(a, key) ==
    CHOOSE n \in 1..NumPairs(a) :
        /\ Touches(a, n, key)
        /\ \A m \in (n + 1)..NumPairs(a) : ~Touches(a, m, key)

\* The red, green and blue byte of a color (bits 16-23, 8-15, 0-7).
RGB(c) == <<c.hi % 256, c.lo \div 256, c.lo % 256>>

\* The layout positions (0-based) and the mask byte of a position: body
\* template (p div 60), body index (p mod 60).
Positions == 0..(Len(get_keys) - 1)
KeyAt(p) == get_keys[p + 1]
Bodies == <<BODY0, BODY1, BODY2>>
MaskChars(p) == SubSeq(Bodies[p \div 60 + 1], 2 * (p % 60) + 1, 2 * (p % 60) + 2)
MaskNonZero(p) == MaskChars(p) # <<"0", "0">>

\* The three bytes a table holds for position p: body index (p mod 60) of the
\* offset-16, offset-8 and offset-0 line report of third (p div 60).
EncodedRGB(t, p) ==
    <<t[p \div 60 + 2][5 + (p % 60)],
      t[p \div 60 + 5][5 + (p % 60)],
      t[p \div 60 + 8][5 + (p % 60)]>>

\* The initiation report: 04 00 02 00 fc ea, then zeros.
InitiationReport ==
    [i \in 1..(Len(HEADER0) \div 2) |->
        CASE i = 1 -> 4 [] i = 3 -> 2 [] i = 5 -> 252 [] i = 6 -> 234
          [] OTHER -> 0]

\* The first two header bytes of the nine line reports, in declared order.
LineHeaders ==
    <<<<5, 0>>, <<5, 1>>, <<5, 2>>, <<6, 0>>, <<6, 1>>, <<6, 2>>,
      <<7, 0>>, <<7, 1>>, <<7, 2>>>>

\* C4: for every override table the encoder returns exactly 10 reports:
\* report 0 is the initiation template whatever the overrides, and report n
\* (1..9) carries the n-th line header (05 00 .. 07 02) followed by the body
\* of template (n - 1) mod 3 encoded for channel offset 16, 8, 0 for n in
\* 1..3, 4..6, 7..9: zero where the template is zero, and else the offset's
\* byte of the color of the key at position ((n - 1) mod 3) * 60 + index.
C4_TenReportsInOrder ==
    Built =>
        /\ Len(table) = 10
        /\ table[1] = InitiationReport
        /\ \A n \in 1..9 :
            /\ SubSeq(table[n + 1], 1, 2) = LineHeaders[n]
            /\ \A b \in 0..59 :
                LET p == ((n - 1) % 3) * 60 + b IN
                table[n + 1][5 + b] =
                    IF Bodies[((n - 1) % 3) + 1][2 * b + 1] = "0" THEN 0
                    ELSE RGB(KeyColor(overrides, KeyAt(p)))[(n - 1) \div 3 + 1]

\* C4 witness: a table built from a non-empty override table.
C4_Witness ==
    /\ Built /\ Len(table) = 10
    /\ overrides # EmptyMap
    /\ table[1] = InitiationReport

\* The default color of a command line: the value of its last "all" pair,
\* white without one.
DefaultOf(a) ==
    IF Named(a, "all") THEN PairColor(a, LastPair(a, "all")) ELSE WHITE

\* C5: every layout position with a non-zero mask whose key no pair names
\* (directly or through a group) is encoded with the three channel bytes of
\* the value given for "all", or with FF FF FF when no "all" pair was given;
\* a key that a pair names is encoded with its own color wherever the "all"
\* pair stands in the input.
C5_DefaultColor ==
    Built =>
        \A p \in Positions :
            MaskNonZero(p) =>
                EncodedRGB(table, p) =
                    IF Named(args, KeyAt(p))
                    THEN RGB(PairColor(args, LastPair(args, KeyAt(p))))
                    ELSE RGB(DefaultOf(args))

\* C5 witness: p1 was given a color before "all" was: p1 (position 58) keeps
\* its own color and esc (position 0) has the color of "all".
C5_Witness ==
    /\ Built
    /\ args = <<ProgramName, "p1", "ff0000", "all", "00ff00">>
    /\ EncodedRGB(table, 58) = <<255, 0, 0>>
    /\ EncodedRGB(table, 0) = <<0, 255, 0>>

\* C6: pairs are applied left to right and the last pair that touches a key
\* decides its color: the table maps exactly the keys some pair names, each
\* to the value of the last pair naming it (a group pair overwrites every
\* member, a later key pair only that member).
C6_LastPairWins ==
    (pc # "start" /\ parsed = "Ok") =>
        /\ \A key \in DOMAIN overrides :
            /\ Named(args, key)
            /\ overrides[key] = PairColor(args, LastPair(args, key))
        /\ \A n \in 1..NumPairs(args) :
            \A key \in (IF PairName(args, n) \in DOMAIN get_key_groups
                        THEN Members(PairName(args, n))
                        ELSE {PairName(args, n)}) :
                key \in DOMAIN overrides

\* C6 witness: a key pair after a group pair: p1 has the later color, the
\* other members keep the group's.
C6_Witness ==
    /\ parsed = "Ok"
    /\ args = <<ProgramName, "pkeys", "ff0000", "p1", "00ff00">>
    /\ overrides["p1"] = U32(0, 65280)
    /\ \A key \in {"p2", "p3", "p4", "p5"} : overrides[key] = U32(255, 0)

\* C7: for a group g and a color c given as the only pair, every member of g
\* is in the layout at a position with a non-zero mask byte, every position
\* of a member is encoded with the R, G, B bytes of c in the offset-16,
\* offset-8 and offset-0 line of its third, and every other position with a
\* non-zero mask is encoded FF FF FF.
C7_GroupOnly ==
    (Built /\ Len(args) = 3 /\ args[2] \in DOMAIN get_key_groups) =>
        /\ \A key \in Members(args[2]) :
              \E p \in Positions : KeyAt(p) = key /\ MaskNonZero(p)
        /\ \A p \in Positions :
              MaskNonZero(p) =>
                 EncodedRGB(table, p) =
                    IF KeyAt(p) \in Members(args[2])
                    THEN RGB(PairColor(args, 1))
                    ELSE <<255, 255, 255>>

\* C7 witness: `pkeys ff0000`: p1..p5 (positions 58, 74, 90, 106, 122) are
\* FF 00 00 and esc is white.
C7_Witness ==
    /\ Built
    /\ args = <<ProgramName, "pkeys", "ff0000">>
    /\ \A p \in {58, 74, 90, 106, 122} :
          KeyAt(p) \in Members("pkeys") /\ EncodedRGB(table, p) = <<255, 0, 0>>
    /\ EncodedRGB(table, 0) = <<255, 255, 255>>

\* (b16 << 16) | (b8 << 8) | b0 of the three bytes of a position.
Recombine(rgb) == rgb[1] * 65536 + rgb[2] * 256 + rgb[3]

\* The key identifiers of the layout (the "unused" marker is none).
LayoutKeys == {KeyAt(p) : p \in Positions} \ {"????"}

\* C8 as claimed: for every accepted input and every overridden layout key,
\* the three bytes of its position recombine to exactly the color value the
\* input gave for the key.
C8_RoundTripExact ==
    Built =>
        \A p \in Positions :
            (KeyAt(p) \in LayoutKeys /\ Named(args, KeyAt(p))) =>
                LET c == PairColor(args, LastPair(args, KeyAt(p))) IN
                /\ c.hi < 256
                /\ Recombine(EncodedRGB(table, p)) = c.hi * 65536 + c.lo

\* C8 as amended: for every accepted input and every overridden layout key,
\* the position of the key has a non-zero mask byte and its three bytes
\* recombine to the low 24 bits of the color value the input gave for the key
\* (bits 24-31 of an accepted value are dropped by the encoder).
C8_RoundTripLow24 ==
    Built =>
        \A p \in Positions :
            (KeyAt(p) \in LayoutKeys /\ Named(args, KeyAt(p))) =>
                LET c == PairColor(args, LastPair(args, KeyAt(p))) IN
                /\ MaskNonZero(p)
                /\ Recombine(EncodedRGB(table, p)) = (c.hi % 256) * 65536 + c.lo

\* C8 witness: p1 was given the 25-bit value 1ff0000 and its position
\* recombines to ff0000; esc was given 12abEF and recombines to it.
C8_Witness ==
    /\ Built
    /\ args = <<ProgramName, "p1", "1ff0000", "esc", "12abEF">>
    /\ overrides["p1"] = U32(511, 0)
    /\ Recombine(EncodedRGB(table, 58)) = 16711680
    /\ Recombine(EncodedRGB(table, 0)) = 1223663

\* The command line with its pairs m and n exchanged / with pair n removed.
SwapPairs(a, m, n) ==
    [i \in DOMAIN a |->
        CASE i \in {2 * m, 2 * m + 1} -> a[i + 2 * (n - m)]
          [] i \in {2 * n, 2 * n + 1} -> a[i - 2 * (n - m)]
          [] OTHER -> a[i]]
WithoutPair(a, n) ==
    [i \in 1..(Len(a) - 2) |-> IF i < 2 * n THEN a[i] ELSE a[i + 2]]

\* What try_parse_cmd gave in this run.
Resolved == [kind |-> parsed, overrides |-> overrides]

\* C9: for two groups A, B with disjoint member sets, [A, cA, B, cB] and
\* [B, cB, A, cA] resolve to the same override table, and [A, cA, A, cA]
\* resolves to the same table as [A, cA].
C9_GroupsCommute ==
    (pc # "start" /\ Len(args) = 5
       /\ args[2] \in DOMAIN get_key_groups /\ args[4] \in DOMAIN get_key_groups) =>
        /\ Members(args[2]) \cap Members(args[4]) = {} =>
              Resolved = try_parse_cmd(get_lfos, SwapPairs(args, 1, 2))
        /\ (args[2] = args[4] /\ args[3] = args[5]) =>
              Resolved = try_parse_cmd(get_lfos, WithoutPair(args, 2))

\* C9 witness: pkeys then fkeys, both resolved.
C9_Witness ==
    /\ parsed = "Ok"
    /\ args = <<ProgramName, "pkeys", "ff0000", "fkeys", "00ff00">>
    /\ overrides["p5"] = U32(255, 0)
    /\ overrides["f12"] = U32(0, 65280)
    /\ Cardinality(DOMAIN overrides) = 17

\* A name that is no group, not "all", not an identifier of the layout (and
\* no flag).
Inert(name) ==
    /\ name \notin DOMAIN get_key_groups
    /\ name # "all"
    /\ \A p \in Positions : KeyAt(p) # name
    /\ name \notin {"--help", "--version"}

\* C10: a pair for a name that is no group, not "all" and not in the layout
\* is accepted without error (the command line resolves whenever it resolves
\* without that pair and the pair's color parses), and the ten reports are
\* byte-identical to those of the command line without that pair.
C10_UnknownKeyInert ==
    pc # "start" =>
        \A n \in 1..NumPairs(args) :
            (Inert(PairName(args, n)) /\ ~OddTokens(args) /\ ~HasFlag(args)) =>
                LET rest == try_parse_cmd(get_lfos, WithoutPair(args, n)) IN
                /\ (rest.kind = "Ok"
                      /\ from_str_radix(Chars(args[2 * n + 1]), 32).some)
                        => parsed = "Ok"
                /\ Built => table = build_table(get_lfos, rest.overrides)

\* C10 witness: a pair for "bogus" before a pair for p1: "bogus" is in the
\* override table and the reports are those of `p1 00ff00`.
C10_Witness ==
    /\ Built
    /\ args = <<ProgramName, "bogus", "ff0000", "p1", "00ff00">>
    /\ "bogus" \in DOMAIN overrides
    /\ EncodedRGB(table, 58) = <<0, 255, 0>>
    /\ EncodedRGB(table, 0) = <<255, 255, 255>>

\* ------------------------------------------------------------------------
\* C11 as stated: report 0 is a payload of 65 bytes.
C11_InitiationReport65 ==
    Built => Len(table[1]) = 65

\* C11: report 0 is the same 64 bytes in every invocation, whatever the
\* overrides are: the decoded HEADER0, starting 04 00 02 00 fc ea and zero
\* from the seventh byte on.
C11_InitiationReportFixed ==
    Built =>
        /\ Len(table[1]) = 64
        /\ Len(HEADER0) = 2 * 64
        /\ SubSeq(table[1], 1, 6) = <<4, 0, 2, 0, 252, 234>>
        /\ \A b \in 7..64 : table[1][b] = 0

\* A table built from two overrides, one of them "all", whose first report
\* is the 64-byte initiation payload.
C11_Witness ==
    /\ Built
    /\ "all" \in DOMAIN overrides
    /\ "esc" \in DOMAIN overrides
    /\ Len(table[1]) = 64
    /\ table[1][5] = 252

\* ------------------------------------------------------------------------
\* C12: each of reports 1..9 is 64 bytes, the four bytes of its header
\* template followed by 60 body bytes, whatever the overrides are; the first
\* header bytes are 05, 06 or 07, the third index 0, 1 or 2, then 3c (18 for
\* the last third) and 00, and every body byte whose mask position is zero
\* is 0x00.
C12_LineReportShape ==
    Built =>
        \A n \in 1..9 :
            LET report == table[n + 1]
                header == lines[n].header
                body == lines[n].body
            IN /\ Len(header) = 2 * 4
               /\ Len(body) = 2 * 60
               /\ Len(report) = 4 + 60
               /\ SubSeq(report, 1, 4) =
                    <<5 + (n - 1) \div 3, (n - 1) % 3,
                      IF (n - 1) % 3 = 2 THEN 24 ELSE 60, 0>>
               /\ \A b \in 1..60 :
                    body[2 * b - 1] = "0" => report[4 + b] = 0

\* A table in which "all" gives every non-zero mask position a non-zero
\* byte in the red report of the first third, next to zero bytes at the
\* zero mask positions of the third third.
C12_Witness ==
    /\ Built
    /\ "all" \in DOMAIN overrides
    /\ overrides["all"] = U32(255, 0)
    /\ Len(table[2]) = 64
    /\ table[2][5] = 255
    /\ BODY2[2 * 60 - 1] = "0"
    /\ table[4][4 + 60] = 0

\* ------------------------------------------------------------------------
\* The configuration steps in the order of configure_endpoint, and the writes.
ConfigureOrder ==
    <<"set_active_configuration", "claim_interface", "set_alternate_setting">>
WriteOps == {"write_interrupt", "write_bulk"}

\* The configuration steps and the write among the calls of a cycle.
Steps(l) ==
    SelectSeq(l, LAMBDA e : e.op \in {ConfigureOrder[i] : i \in 1..3} \cup WriteOps)

\* The calls of a cycle with a given name.
Called(l, op) == {i \in DOMAIN l : l[i].op = op}

\* C13: in one report's cycle the configuration steps are called in the order
\* set-active-configuration, claim-interface, set-alternate-setting; a step
\* or write is called only when every step before it succeeded, so a failed
\* step is the cycle's last step and no write follows it; the write comes
\* fourth, after three successful steps.
C13_ConfigureInOrder ==
    LET steps == Steps(log) IN
    /\ Len(steps) <= 4
    /\ \A i \in DOMAIN steps :
        /\ i <= 3 => steps[i].op = ConfigureOrder[i]
        /\ i = 4 => steps[i].op \in WriteOps
        /\ \A j \in 1..(i - 1) : steps[j].ok
    /\ pc = "claim_interface" => Len(steps) = 1 /\ steps[1].ok
    /\ pc = "set_alternate_setting" => Len(steps) = 2 /\ steps[2].ok
    /\ pc = "write" => Len(steps) = 3 /\ steps[3].ok

\* The cycle of report 0 is over: claim-interface failed after a successful
\* set-active-configuration, nothing else was configured or written, and
\* the detached driver was re-attached.
C13_Witness ==
    /\ pc = "next_line"
    /\ k = 1
    /\ Steps(log) = <<Logged("set_active_configuration", TRUE),
                      Logged("claim_interface", FALSE)>>
    /\ log[Len(log)] = Logged("attach_kernel_driver", TRUE)

\* ------------------------------------------------------------------------
\* A kernel driver was detached in the cycle.
Detached(l) == \E i \in Called(l, "detach_kernel_driver") : l[i].ok

\* The positions of main at which no cycle is under way, so that `log` holds
\* a finished cycle.
CycleOver == pc \in {"next_line", "write_endpoint", "panic_endpoint", "done"}

\* C14: when a kernel driver was detached in a cycle, the re-attach stays due
\* through the rest of the cycle and is the cycle's last call, once, whether
\* the cycle ended in a successful write, a failed write or a failed
\* configuration step; after the re-attach, successful or not, the cycle is
\* over.
C14_RestoredOnEveryExit ==
    /\ (pc \in CyclePcs \ {"write_endpoint", "detach_kernel_driver"}
            /\ Detached(log))
        => has_kernel_driver
    /\ (pc = "restore" /\ Detached(log)) => ENABLED AttachKernelDriver
    /\ (CycleOver /\ Detached(log))
        => /\ log[Len(log)].op = "attach_kernel_driver"
           /\ Cardinality(Called(log, "attach_kernel_driver")) = 1
    /\ (log # <<>> /\ log[Len(log)].op = "attach_kernel_driver") => CycleOver

\* A cycle that detached the driver, configured, failed to write and then
\* failed to re-attach, and is over.
C14_Witness ==
    /\ pc = "next_line"
    /\ log = <<Logged("kernel_driver_active", TRUE),
               Logged("detach_kernel_driver", TRUE),
               Logged("set_active_configuration", TRUE),
               Logged("claim_interface", TRUE),
               Logged("set_alternate_setting", TRUE),
               Logged("write_interrupt", FALSE),
               Logged("attach_kernel_driver", FALSE)>>
    /\ k = 2

\* ------------------------------------------------------------------------
\* C15: a failed kernel-driver-active query or a failed detach is followed
\* by set-active-configuration; every finished cycle called
\* set-active-configuration, and called the write when the three
\* configuration steps succeeded.
C15_DetachFailureDoesNotAbort ==
    /\ (/\ log # <<>>
        /\ log[Len(log)].op \in {"kernel_driver_active", "detach_kernel_driver"}
        /\ ~log[Len(log)].ok)
        => pc = "set_active_configuration"
    /\ (CycleOver /\ log # <<>>)
        => /\ Called(log, "set_active_configuration") # {}
           /\ (Len(Steps(log)) >= 3 /\ \A i \in 1..3 : Steps(log)[i].ok)
                => Called(log, WriteOp(TRANSFER_TYPE)) # {}

\* A finished cycle in which the driver was active, the detach failed, and
\* the three configuration steps and the write were still made.
C15_Witness ==
    /\ pc = "next_line"
    /\ k = 1
    /\ SubSeq(log, 1, 2) = <<Logged("kernel_driver_active", TRUE),
                             Logged("detach_kernel_driver", FALSE)>>
    /\ Steps(log) = <<Logged("set_active_configuration", TRUE),
                      Logged("claim_interface", TRUE),
                      Logged("set_alternate_setting", TRUE),
                      Logged("write_interrupt", TRUE)>>

\* ------------------------------------------------------------------------
\* C16: a cycle calls the re-attach only when its detach succeeded; a cycle
\* whose detach failed makes no re-attach.
C16_ReattachOnlyAfterDetach ==
    Called(log, "attach_kernel_driver") # {} => Detached(log)

\* ------------------------------------------------------------------------
\* The positions of write_endpoint after the kernel-driver-active query.
AfterQuery == CyclePcs \ {"write_endpoint"}

\* C17: nothing is carried from one report to the next.  While report k is
\* in its cycle exactly one find_writable_endpoint call was made for it and
\* every earlier report had exactly one; the endpoint in use is the result
\* of that call on the descriptors it read.  The cycle's first call is its
\* own kernel-driver-active query; the detach is called exactly when that
\* query answered Ok(true) for the interface as it is now, and the re-attach
\* is due exactly when this cycle called the detach.
C17_NothingReused ==
    /\ pc \in CyclePcs =>
        /\ resolved[k] = 1
        /\ \A j \in 0..(k - 1) : resolved[j] = 1
        /\ requested = TRANSFER_TYPE
        /\ ep = find_writable_endpoint(device.value, readable, requested)
    /\ pc \in AfterQuery =>
        /\ Called(log, "kernel_driver_active") = {1}
        /\ Cardinality(Called(log, "detach_kernel_driver")) <= 1
    /\ pc = "detach_kernel_driver" =>
        /\ log = <<Logged("kernel_driver_active", TRUE)>>
        /\ ep.value.iface \in kernel_driver
    /\ (pc = "set_active_configuration" /\ Len(log) = 1) =>
        ~(log[1].ok /\ ep.value.iface \in kernel_driver)
    /\ pc \in AfterQuery \ {"detach_kernel_driver"} =>
        (has_kernel_driver <=> Called(log, "detach_kernel_driver") = {2})

\* Report 0 used interface 0, detached its driver and could not re-attach
\* it; report 1 read only the second configuration, resolved the endpoint of
\* interface 2 and found that interface's driver active.
C17_Witness ==
    /\ pc = "detach_kernel_driver"
    /\ k = 1
    /\ device = Some(TreeTwoConfigs)
    /\ readable = {1}
    /\ ep = Some(Endpoint(2, 2, 0, 4))
    /\ kernel_driver = {2}
    /\ resolved[0] = 1 /\ resolved[1] = 1

\* ------------------------------------------------------------------------
\* The endpoints of a tree as (configuration, interface, alternate setting,
\* endpoint) positions, each counted from 1.
Paths(tree) ==
    UNION {UNION {UNION {{<<n, i, a, e>> :
                            e \in 1..Len(tree[n].interfaces[i][a].endpoints)} :
                         a \in 1..Len(tree[n].interfaces[i])} :
                  i \in 1..Len(tree[n].interfaces)} :
           n \in 1..Len(tree)}

EndpointAt(tree, p) == tree[p[1]].interfaces[p[2]][p[3]].endpoints[p[4]]

\* The OUT endpoints of the given transfer type.
Matches(tree, transfer_type) ==
    {p \in Paths(tree) :
        /\ EndpointAt(tree, p).direction = "Out"
        /\ EndpointAt(tree, p).transfer_type = transfer_type}

\* p comes before q in (configuration, interface, setting, endpoint) order.
Before(p, q) ==
    \E j \in 1..4 : p[j] < q[j] /\ \A h \in 1..(j - 1) : p[h] = q[h]

First(S) == CHOOSE p \in S : \A q \in S \ {p} : Before(p, q)

\* What resolution returns for the endpoint at p.
Selected(tree, p) ==
    Endpoint(tree[p[1]].number,
             tree[p[1]].interfaces[p[2]][p[3]].interface_number,
             tree[p[1]].interfaces[p[2]][p[3]].setting_number,
             EndpointAt(tree, p).address)

\* The result determined by a set of matching positions.
FirstOf(tree, S) == IF S = {} THEN None ELSE Some(Selected(tree, First(S)))

\* C18 as stated: a walk returns the first OUT endpoint of the requested type
\* over every configuration of the tree, and "not found" exactly when the
\* tree has none.
C18_FirstOverEveryConfiguration ==
    pc = "found" =>
        ep = FirstOf(device.value, Matches(device.value, requested))

\* C18: a walk returns the first OUT endpoint of the requested type, in
\* (configuration, interface, alternate setting, endpoint) order, over the
\* configurations whose descriptor it could read, and "not found" exactly
\* when those configurations have none; the result is a function of the
\* tree, the requested type and the configurations read.
C18_FirstOverReadConfigurations ==
    pc = "found" =>
        ep = FirstOf(device.value,
                     {p \in Matches(device.value, requested) :
                         p[1] - 1 \in readable})

\* Both configurations were read and the OUT interrupt endpoint returned is
\* the very last endpoint of the tree, an OUT bulk endpoint at the very
\* first position having been passed over.
C18_Witness ==
    /\ pc = "found"
    /\ readable = {0, 1}
    /\ requested = "Interrupt"
    /\ Matches(device.value, "Bulk") = {<<1, 1, 1, 1>>}
    /\ Matches(device.value, "Interrupt") = {<<2, 2, 2, 2>>}
    /\ ep = Some(Endpoint(2, 1, 1, 2))

\* ------------------------------------------------------------------------
\* C19: every non-zero mask position whose layout slot is "????" carries the
\* default color ("all" value or white) in the three channel reports,
\* whatever the command line is.
C19_SentinelDefault ==
    Built =>
        \A p \in Positions :
            (KeyAt(p) = "????" /\ MaskNonZero(p))
                => EncodedRGB(table, p) = RGB(DefaultColor(overrides))

\* ------------------------------------------------------------------------
\* C20: when the table is about to be built, for every line l in 0..8 and
\* every body byte index b whose mask is non-zero, the index the encoder
\* computes is (l mod 3) * 60 + b, a valid
\* index of the layout inside third (l mod 3); and the byte a built table
\* holds at body index b of line l is the line's channel of the color of the
\* layout key at that one position.
C20_IndexInsideLayout ==
    /\ pc = "build_table" =>
          \A l \in 0..8, b \in 0..59 :
              lines[l + 1].body[2 * b + 1] # "0" =>
                  /\ LayoutIndex(l, 2 * b) = (l % 3) * 60 + b
                  /\ LayoutIndex(l, 2 * b) \in 0..(Len(get_keys) - 1)
                  /\ LayoutIndex(l, 2 * b) \div 60 = l % 3
    /\ Built =>
          \A l \in 0..8, b \in 0..59 :
              lines[l + 1].body[2 * b + 1] # "0" =>
                  table[l + 2][5 + b] =
                      color_component(
                          KeyColor(overrides, get_keys[(l % 3) * 60 + b + 1]),
                          lines[l + 1].ofset)

\* The last layout entry, position 141 of 142, has a non-zero mask and is
\* encoded with the color the command line gave its key.
C20_Witness ==
    /\ Built
    /\ Len(get_keys) = 142
    /\ MaskNonZero(141)
    /\ \A p \in 142..179 : ~MaskNonZero(p)
    /\ KeyAt(141) \in DOMAIN overrides
    /\ overrides[KeyAt(141)] = U32(0, 65280)
    /\ EncodedRGB(table, 141) = <<0, 255, 0>>

====
